---- MODULE Spec2Model ----
(***************************************************************************)
(* A model of MoodleReplacement.c: an in-memory store of students, exams   *)
(* and grades driven by the lines of input.txt, one response per command   *)
(* written to output.txt.                                                  *)
(*                                                                         *)
(* Text is modelled at the level of characters: a C string is a sequence   *)
(* of one-character strings, a command line is the sequence of its         *)
(* whitespace-delimited tokens, and sscanf consumes those tokens the way   *)
(* its conversions do.  A line written by fprintf is the pair              *)
(* <<format, arguments>>.                                                  *)
(***************************************************************************)
EXTENDS Integers, Sequences, FiniteSets, TLC

(***************************************************************************)
(* Program constants (#define).                                            *)
(***************************************************************************)
MAX_STUDENTS == 100
MAX_EXAMS == 100
MAX_NAME_LENGTH == 100
MAX_FACULTY_LENGTH == 100
MAX_TYPE_LENGTH == 20
MAX_GRADES == MAX_EXAMS * MAX_STUDENTS

(***************************************************************************)
(* Bounds of the model.                                                    *)
(***************************************************************************)
\* Lines of input.txt read in one run, after the lines that built the
\* initial store.
MaxLines == 2

(***************************************************************************)
(* String literals of the program.                                         *)
(***************************************************************************)
ADD_STUDENT == <<"A","D","D","_","S","T","U","D","E","N","T">>
ADD_EXAM == <<"A","D","D","_","E","X","A","M">>
ADD_GRADE == <<"A","D","D","_","G","R","A","D","E">>
UPDATE_EXAM == <<"U","P","D","A","T","E","_","E","X","A","M">>
UPDATE_GRADE == <<"U","P","D","A","T","E","_","G","R","A","D","E">>
DELETE_STUDENT == <<"D","E","L","E","T","E","_","S","T","U","D","E","N","T">>
SEARCH_STUDENT == <<"S","E","A","R","C","H","_","S","T","U","D","E","N","T">>
SEARCH_GRADE == <<"S","E","A","R","C","H","_","G","R","A","D","E">>
LIST_ALL_STUDENTS == <<"L","I","S","T","_","A","L","L","_","S","T","U","D","E","N","T","S">>
END == <<"E","N","D">>

SoftwareEngineering == <<"S","o","f","t","w","a","r","e","E","n","g","i","n","e","e","r","i","n","g">>
ComputerScience == <<"C","o","m","p","u","t","e","r","S","c","i","e","n","c","e">>
DataScience == <<"D","a","t","a","S","c","i","e","n","c","e">>
CyberSecurity == <<"C","y","b","e","r","S","e","c","u","r","i","t","y">>
InformationTechnology == <<"I","n","f","o","r","m","a","t","i","o","n","T","e","c","h","n","o","l","o","g","y">>
ProgrammingLanguagesAndCompilers == <<"P","r","o","g","r","a","m","m","i","n","g","L","a","n","g","u","a","g","e","s","A","n","d","C","o","m","p","i","l","e","r","s">>

WRITTEN == <<"W","R","I","T","T","E","N">>
DIGITAL == <<"D","I","G","I","T","A","L">>

(***************************************************************************)
(* <ctype.h>, <string.h> and the conversions of sscanf.                    *)
(***************************************************************************)
Alpha ==
    {"A","B","C","D","E","F","G","H","I","J","K","L","M",
     "N","O","P","Q","R","S","T","U","V","W","X","Y","Z",
     "a","b","c","d","e","f","g","h","i","j","k","l","m",
     "n","o","p","q","r","s","t","u","v","w","x","y","z"}

isalpha(c) == c \in Alpha

Digits == <<"0","1","2","3","4","5","6","7","8","9">>

isdigit(c) == \E i \in 1..10 : Digits[i] = c

DigitVal(c) == (CHOOSE i \in 1..10 : Digits[i] = c) - 1

strlen(s) == Len(s)

\* strcmp(a, b) == 0
streq(a, b) == a = b

\* The number of leading decimal digits of s.
RECURSIVE LeadingDigits(_)
LeadingDigits(s) ==
    IF s = <<>> \/ ~isdigit(Head(s)) THEN 0 ELSE 1 + LeadingDigits(Tail(s))

\* The value of the digit string s, read left to right from acc.
RECURSIVE DecimalValue(_, _)
DecimalValue(s, acc) ==
    IF s = <<>> THEN acc
    ELSE DecimalValue(Tail(s), 10 * acc + DigitVal(Head(s)))

\* The %d conversion applied to the token tok: an optional sign and the
\* longest run of digits; the characters after them stay in the input.
ScanInt(tok) ==
    LET signed == tok # <<>> /\ Head(tok) \in {"-", "+"}
        body   == IF signed THEN Tail(tok) ELSE tok
        n      == LeadingDigits(body)
        mag    == DecimalValue(SubSeq(body, 1, n), 0)
    IN  [ok   |-> n > 0,
         val  |-> IF signed /\ Head(tok) = "-" THEN 0 - mag ELSE mag,
         rest |-> SubSeq(body, n + 1, Len(body))]

\* Conversions fmt ("d" for %d, "s" for %s) applied in order to the tokens
\* toks, with the values assigned so far in vals.  n is sscanf's result: the
\* number of values assigned, or EOF (-1) when the input ends before the
\* first one.
RECURSIVE Convert(_, _, _)
Convert(toks, fmt, vals) ==
    IF fmt = <<>> THEN [n |-> Len(vals), vals |-> vals]
    ELSE IF toks = <<>>
         THEN [n |-> IF vals = <<>> THEN -1 ELSE Len(vals), vals |-> vals]
    ELSE IF Head(fmt) = "s"
         THEN Convert(Tail(toks), Tail(fmt), Append(vals, Head(toks)))
    ELSE LET r == ScanInt(Head(toks))
         IN  IF ~r.ok THEN [n |-> Len(vals), vals |-> vals]
             ELSE Convert(IF r.rest = <<>> THEN Tail(toks)
                          ELSE <<r.rest>> \o Tail(toks),
                          Tail(fmt), Append(vals, r.val))

\* sscanf(command, "%*s <fmt>", ...): the verb is skipped, then fmt.
sscanf(command, fmt) ==
    IF command = <<>> THEN [n |-> -1, vals |-> <<>>]
    ELSE Convert(Tail(command), fmt, <<>>)

(***************************************************************************)
(* The record store.  A store st holds the live prefix of each global      *)
(* array: st.students is students[0 .. student_count-1], and likewise      *)
(* st.exams and st.grades.  A handler returns the set of its possible      *)
(* replies: the store it leaves, the lines it wrote, and whether the       *)
(* process died in it (brk: whether main leaves its loop).  The set has    *)
(* one element except where the handler writes past the end of an array.   *)
(***************************************************************************)
Store(s, e, g) == [students |-> s, exams |-> e, grades |-> g]

Reply(st, lines) ==
    [students |-> st.students, exams |-> st.exams, grades |-> st.grades,
     out |-> lines, crash |-> FALSE, brk |-> FALSE]

\* A write to arr[count] with count at or past the array's capacity is
\* undefined.  Of what it may do, two outcomes are kept: the write lands
\* in memory after the array and the handler completes as written, or the
\* process dies before the handler prints anything.
OutOfBounds(st, landed) ==
    { landed,
      [students |-> st.students, exams |-> st.exams, grades |-> st.grades,
       out |-> <<>>, crash |-> TRUE, brk |-> FALSE] }

student_count(st) == Len(st.students)
exam_count(st) == Len(st.exams)
grade_count(st) == Len(st.grades)

\* find_student with its scan started at index 1 instead of 0.
find_student_from_1(st, id) ==
    IF \E i \in 2..student_count(st) : st.students[i].id = id
    THEN (CHOOSE i \in 2..student_count(st) :
             /\ st.students[i].id = id
             /\ \A j \in 2..(i - 1) : st.students[j].id # id) - 1
    ELSE -1

\* The index (from 0) of the first student with this id, or -1.
find_student(st, id) ==
    IF \E i \in 1..student_count(st) : st.students[i].id = id
    THEN (CHOOSE i \in 1..student_count(st) :
             /\ st.students[i].id = id
             /\ \A j \in 1..(i - 1) : st.students[j].id # id) - 1
    ELSE -1

\* The index (from 0) of the first exam with this id, or -1.
find_exam(st, id) ==
    IF \E i \in 1..exam_count(st) : st.exams[i].id = id
    THEN (CHOOSE i \in 1..exam_count(st) :
             /\ st.exams[i].id = id
             /\ \A j \in 1..(i - 1) : st.exams[j].id # id) - 1
    ELSE -1

ValidFaculty(faculty) ==
    \/ streq(faculty, SoftwareEngineering)
    \/ streq(faculty, ComputerScience)
    \/ streq(faculty, DataScience)
    \/ streq(faculty, CyberSecurity)
    \/ streq(faculty, InformationTechnology)
    \/ streq(faculty, ProgrammingLanguagesAndCompilers)

\* The name loop of add_student looking at the first character only.
AlphabeticName_first_only(name) == \A i \in 1..Len(name) : i = 1 => isalpha(name[i])

AlphabeticName(name) == \A i \in 1..Len(name) : isalpha(name[i])

\* add_student with the checks of its arguments moved before the check
\* of the id.
add_student_validates_first(st, id, name, faculty) ==
    IF strlen(name) >= MAX_NAME_LENGTH \/ strlen(faculty) >= MAX_FACULTY_LENGTH
    THEN {Reply(st, << <<"Invalid name or faculty length\n", <<>> >> >>)}
    ELSE IF ~ValidFaculty(faculty)
    THEN {Reply(st, << <<"Invalid faculty\n", <<>> >> >>)}
    ELSE IF ~AlphabeticName(name)
    THEN {Reply(st, << <<"Invalid name\n", <<>> >> >>)}
    ELSE IF find_student(st, id) # -1
    THEN {Reply(st, << <<"Student: %d already exists\n", <<id>> >> >>)}
    ELSE LET new == [id |-> id, name |-> name, faculty |-> faculty]
             done == Reply(Store(Append(st.students, new), st.exams, st.grades),
                           << <<"Student: %d added\n", <<id>> >> >>)
         IN  IF student_count(st) < MAX_STUDENTS THEN {done}
             ELSE OutOfBounds(st, done)

\* add_student putting the new student in front of the others.
add_student_at_front(st, id, name, faculty) ==
    IF find_student(st, id) # -1
    THEN {Reply(st, << <<"Student: %d already exists\n", <<id>> >> >>)}
    ELSE IF strlen(name) >= MAX_NAME_LENGTH \/ strlen(faculty) >= MAX_FACULTY_LENGTH
    THEN {Reply(st, << <<"Invalid name or faculty length\n", <<>> >> >>)}
    ELSE IF ~ValidFaculty(faculty)
    THEN {Reply(st, << <<"Invalid faculty\n", <<>> >> >>)}
    ELSE IF ~AlphabeticName(name)
    THEN {Reply(st, << <<"Invalid name\n", <<>> >> >>)}
    ELSE LET new == [id |-> id, name |-> name, faculty |-> faculty]
         IN  {Reply(Store(<<new>> \o st.students, st.exams, st.grades),
                    << <<"Student: %d added\n", <<id>> >> >>)}

add_student(st, id, name, faculty) ==
    IF find_student(st, id) # -1
    THEN {Reply(st, << <<"Student: %d already exists\n", <<id>> >> >>)}
    ELSE IF strlen(name) >= MAX_NAME_LENGTH \/ strlen(faculty) >= MAX_FACULTY_LENGTH
    THEN {Reply(st, << <<"Invalid name or faculty length\n", <<>> >> >>)}
    ELSE IF ~ValidFaculty(faculty)
    THEN {Reply(st, << <<"Invalid faculty\n", <<>> >> >>)}
    ELSE IF ~AlphabeticName(name)
    THEN {Reply(st, << <<"Invalid name\n", <<>> >> >>)}
    ELSE LET new == [id |-> id, name |-> name, faculty |-> faculty]
             done == Reply(Store(Append(st.students, new), st.exams, st.grades),
                           << <<"Student: %d added\n", <<id>> >> >>)
         IN  IF student_count(st) < MAX_STUDENTS THEN {done}
             ELSE OutOfBounds(st, done)

add_exam(st, id, type, info) ==
    IF find_exam(st, id) # -1
    THEN {Reply(st, << <<"Exam: %d already exists\n", <<id>> >> >>)}
    ELSE IF strlen(type) >= MAX_TYPE_LENGTH \/ strlen(info) >= MAX_NAME_LENGTH
    THEN {Reply(st, << <<"Invalid type or info length\n", <<>> >> >>)}
    ELSE LET new == [id |-> id, type |-> type, info |-> info]
             done == Reply(Store(st.students, Append(st.exams, new), st.grades),
                           << <<"Exam: %d added\n", <<id>> >> >>)
         IN  IF exam_count(st) < MAX_EXAMS THEN {done}
             ELSE OutOfBounds(st, done)

\* The range check with its upper limit off by one.
GradeInRange_to_101(grade_value) == ~(grade_value < 0 \/ grade_value > 101)

\* if (grade_value < 0 || grade_value > 100) fails
GradeInRange(grade_value) == ~(grade_value < 0 \/ grade_value > 100)

\* add_grade with the range check moved after the two lookups.
add_grade_looks_up_first(st, exam_id, student_id, grade_value) ==
    IF find_student(st, student_id) = -1
    THEN {Reply(st, << <<"Student not found\n", <<>> >> >>)}
    ELSE IF find_exam(st, exam_id) = -1
    THEN {Reply(st, << <<"Exam not found\n", <<>> >> >>)}
    ELSE IF ~GradeInRange(grade_value)
    THEN {Reply(st, << <<"Invalid grade\n", <<>> >> >>)}
    ELSE LET new == [exam_id |-> exam_id, student_id |-> student_id,
                     grade |-> grade_value]
             done == Reply(Store(st.students, st.exams, Append(st.grades, new)),
                           << <<"Grade %d added for the student: %d\n",
                                <<grade_value, student_id>> >> >>)
         IN  IF grade_count(st) < MAX_GRADES THEN {done}
             ELSE OutOfBounds(st, done)

\* add_grade overwriting the first record of the pair, when there is one,
\* instead of appending.
add_grade_replaces(st, exam_id, student_id, grade_value) ==
    IF ~GradeInRange(grade_value)
    THEN {Reply(st, << <<"Invalid grade\n", <<>> >> >>)}
    ELSE IF find_student(st, student_id) = -1
    THEN {Reply(st, << <<"Student not found\n", <<>> >> >>)}
    ELSE IF find_exam(st, exam_id) = -1
    THEN {Reply(st, << <<"Exam not found\n", <<>> >> >>)}
    ELSE LET new == [exam_id |-> exam_id, student_id |-> student_id,
                     grade |-> grade_value]
             old == {k \in 1..Len(st.grades) :
                        /\ st.grades[k].exam_id = exam_id
                        /\ st.grades[k].student_id = student_id}
             k0 == CHOOSE k \in old : \A j \in old : k <= j
         IN  {Reply(Store(st.students, st.exams,
                          IF old = {} THEN Append(st.grades, new)
                          ELSE [st.grades EXCEPT ![k0] = new]),
                    << <<"Grade %d added for the student: %d\n",
                         <<grade_value, student_id>> >> >>)}

\* add_grade without the lookup of the exam.
add_grade_any_exam(st, exam_id, student_id, grade_value) ==
    IF ~GradeInRange(grade_value)
    THEN {Reply(st, << <<"Invalid grade\n", <<>> >> >>)}
    ELSE IF find_student(st, student_id) = -1
    THEN {Reply(st, << <<"Student not found\n", <<>> >> >>)}
    ELSE {Reply(Store(st.students, st.exams,
                      Append(st.grades, [exam_id |-> exam_id,
                                         student_id |-> student_id,
                                         grade |-> grade_value])),
                << <<"Grade %d added for the student: %d\n",
                     <<grade_value, student_id>> >> >>)}

add_grade(st, exam_id, student_id, grade_value) ==
    IF ~GradeInRange(grade_value)
    THEN {Reply(st, << <<"Invalid grade\n", <<>> >> >>)}
    ELSE IF find_student(st, student_id) = -1
    THEN {Reply(st, << <<"Student not found\n", <<>> >> >>)}
    ELSE IF find_exam(st, exam_id) = -1
    THEN {Reply(st, << <<"Exam not found\n", <<>> >> >>)}
    ELSE LET new == [exam_id |-> exam_id, student_id |-> student_id,
                     grade |-> grade_value]
             done == Reply(Store(st.students, st.exams, Append(st.grades, new)),
                           << <<"Grade %d added for the student: %d\n",
                                <<grade_value, student_id>> >> >>)
         IN  IF grade_count(st) < MAX_GRADES THEN {done}
             ELSE OutOfBounds(st, done)

\* update_exam validating the type before it looks the exam up.
update_exam_type_first(st, id, new_type, new_info) ==
    LET index == find_exam(st, id)
    IN  IF ~streq(new_type, WRITTEN) /\ ~streq(new_type, DIGITAL)
        THEN {Reply(st, << <<"Invalid exam type\n", <<>> >> >>)}
        ELSE IF index = -1
        THEN {Reply(st, << <<"Exam not found\n", <<>> >> >>)}
        ELSE {Reply(Store(st.students,
                          [st.exams EXCEPT ![index + 1].type = new_type,
                                           ![index + 1].info = new_info],
                          st.grades),
                    << <<"Exam: %d updated\n", <<id>> >> >>)}

update_exam(st, id, new_type, new_info) ==
    LET index == find_exam(st, id)
    IN  IF index = -1
        THEN {Reply(st, << <<"Exam not found\n", <<>> >> >>)}
        ELSE IF ~streq(new_type, WRITTEN) /\ ~streq(new_type, DIGITAL)
        THEN {Reply(st, << <<"Invalid exam type\n", <<>> >> >>)}
        ELSE {Reply(Store(st.students,
                          [st.exams EXCEPT ![index + 1].type = new_type,
                                           ![index + 1].info = new_info],
                          st.grades),
                    << <<"Exam: %d updated\n", <<id>> >> >>)}

\* The index (from 0) of the first grade at or after i that matches the
\* pair, or -1: the scan of update_grade and search_grade.
RECURSIVE FirstGrade(_, _, _, _)
FirstGrade(st, exam_id, student_id, i) ==
    IF ~(i < grade_count(st)) THEN -1
    ELSE IF st.grades[i + 1].exam_id = exam_id
            /\ st.grades[i + 1].student_id = student_id
         THEN i
    ELSE FirstGrade(st, exam_id, student_id, i + 1)

\* update_grade without the return inside its loop: every matching record
\* is written.
update_grade_every_match(st, exam_id, student_id, new_grade) ==
    IF ~GradeInRange(new_grade)
    THEN {Reply(st, << <<"Invalid grade\n", <<>> >> >>)}
    ELSE IF FirstGrade(st, exam_id, student_id, 0) # -1
         THEN {Reply(Store(st.students, st.exams,
                           [k \in 1..grade_count(st) |->
                               IF st.grades[k].exam_id = exam_id
                                  /\ st.grades[k].student_id = student_id
                               THEN [st.grades[k] EXCEPT !.grade = new_grade]
                               ELSE st.grades[k]]),
                     << <<"Grade %d updated for the student: %d\n",
                          <<new_grade, student_id>> >> >>)}
    ELSE {Reply(st, << <<"Student not found\n", <<>> >> >>)}

\* update_grade telling a missing grade from a missing student.
update_grade_names_grade(st, exam_id, student_id, new_grade) ==
    IF ~GradeInRange(new_grade)
    THEN {Reply(st, << <<"Invalid grade\n", <<>> >> >>)}
    ELSE LET i == FirstGrade(st, exam_id, student_id, 0)
         IN  IF i # -1
             THEN {Reply(Store(st.students, st.exams,
                               [st.grades EXCEPT ![i + 1].grade = new_grade]),
                         << <<"Grade %d updated for the student: %d\n",
                              <<new_grade, student_id>> >> >>)}
             ELSE IF find_student(st, student_id) # -1
             THEN {Reply(st, << <<"Grade not found\n", <<>> >> >>)}
             ELSE {Reply(st, << <<"Student not found\n", <<>> >> >>)}

update_grade(st, exam_id, student_id, new_grade) ==
    IF ~GradeInRange(new_grade)
    THEN {Reply(st, << <<"Invalid grade\n", <<>> >> >>)}
    ELSE LET i == FirstGrade(st, exam_id, student_id, 0)
         IN  IF i # -1
             THEN {Reply(Store(st.students, st.exams,
                               [st.grades EXCEPT ![i + 1].grade = new_grade]),
                         << <<"Grade %d updated for the student: %d\n",
                              <<new_grade, student_id>> >> >>)}
             ELSE {Reply(st, << <<"Student not found\n", <<>> >> >>)}

\* for (j = i; j < count - 1; j++) arr[j] = arr[j + 1];  (i from 0)
ShiftLeft(arr, i, count) ==
    [k \in 1..Len(arr) |->
        IF k >= i + 1 /\ k < count THEN arr[k + 1] ELSE arr[k]]

\* The grade loop of delete_student without the i-- that rechecks the
\* position a record was shifted into.
RECURSIVE RemoveGrades_no_recheck(_, _, _, _)
RemoveGrades_no_recheck(arr, count, i, id) ==
    IF ~(i < count) THEN SubSeq(arr, 1, count)
    ELSE IF arr[i + 1].student_id = id
         THEN RemoveGrades_no_recheck(ShiftLeft(arr, i, count), count - 1, i + 1, id)
    ELSE RemoveGrades_no_recheck(arr, count, i + 1, id)

\* The grade loop of delete_student from index i (from 0) on, over the
\* array arr with count live records.
RECURSIVE RemoveGrades(_, _, _, _)
RemoveGrades(arr, count, i, id) ==
    IF ~(i < count) THEN SubSeq(arr, 1, count)
    ELSE IF arr[i + 1].student_id = id
         THEN RemoveGrades(ShiftLeft(arr, i, count), count - 1, (i - 1) + 1, id)
    ELSE RemoveGrades(arr, count, i + 1, id)

\* delete_student without its loop over the grades.
delete_student_keeps_grades(st, id) ==
    LET index == find_student(st, id)
    IN  IF index = -1
        THEN {Reply(st, << <<"Student not found\n", <<>> >> >>)}
        ELSE {Reply(Store(SubSeq(ShiftLeft(st.students, index, student_count(st)),
                                 1, student_count(st) - 1),
                          st.exams, st.grades),
                    << <<"Student: %d deleted\n", <<id>> >> >>)}

delete_student(st, id) ==
    LET index == find_student(st, id)
    IN  IF index = -1
        THEN {Reply(st, << <<"Student not found\n", <<>> >> >>)}
        ELSE {Reply(Store(SubSeq(ShiftLeft(st.students, index, student_count(st)),
                                 1, student_count(st) - 1),
                          st.exams,
                          RemoveGrades(st.grades, grade_count(st), 0, id)),
                    << <<"Student: %d deleted\n", <<id>> >> >>)}

\* search_student moving the student it found to the front of students.
search_student_moves_to_front(st, id) ==
    LET index == find_student(st, id)
    IN  IF index = -1
        THEN {Reply(st, << <<"Student not found\n", <<>> >> >>)}
        ELSE {Reply(Store(<<st.students[index + 1]>>
                             \o SubSeq(st.students, 1, index)
                             \o SubSeq(st.students, index + 2, Len(st.students)),
                          st.exams, st.grades),
                    << <<"ID: %d, Name: %s, Faculty: %s\n",
                         <<st.students[index + 1].id,
                           st.students[index + 1].name,
                           st.students[index + 1].faculty>> >> >>)}

search_student(st, id) ==
    LET index == find_student(st, id)
    IN  IF index = -1
        THEN {Reply(st, << <<"Student not found\n", <<>> >> >>)}
        ELSE {Reply(st, << <<"ID: %d, Name: %s, Faculty: %s\n",
                             <<st.students[index + 1].id,
                               st.students[index + 1].name,
                               st.students[index + 1].faculty>> >> >>)}

\* search_grade looking the exam up before it scans the grades.
search_grade_exam_first(st, exam_id, student_id) ==
    LET student_index == find_student(st, student_id)
        i == FirstGrade(st, exam_id, student_id, 0)
        exam_index == find_exam(st, exam_id)
    IN  IF student_index = -1
        THEN {Reply(st, << <<"Student not found\n", <<>> >> >>)}
        ELSE IF exam_index = -1
        THEN {Reply(st, << <<"Exam not found\n", <<>> >> >>)}
        ELSE IF i = -1
        THEN {Reply(st, << <<"Grade not found\n", <<>> >> >>)}
        ELSE {Reply(st, << <<"Exam: %d, Student: %d, Name: %s, Grade: %d, Type: %s, Info: %s\n",
                             <<exam_id, student_id,
                               st.students[student_index + 1].name,
                               st.grades[i + 1].grade,
                               st.exams[exam_index + 1].type,
                               st.exams[exam_index + 1].info>> >> >>)}

search_grade(st, exam_id, student_id) ==
    LET student_index == find_student(st, student_id)
        i == FirstGrade(st, exam_id, student_id, 0)
        exam_index == find_exam(st, exam_id)
    IN  IF student_index = -1
        THEN {Reply(st, << <<"Student not found\n", <<>> >> >>)}
        ELSE IF i = -1
        THEN {Reply(st, << <<"Grade not found\n", <<>> >> >>)}
        ELSE IF exam_index = -1
        THEN {Reply(st, << <<"Exam not found\n", <<>> >> >>)}
        ELSE {Reply(st, << <<"Exam: %d, Student: %d, Name: %s, Grade: %d, Type: %s, Info: %s\n",
                             <<exam_id, student_id,
                               st.students[student_index + 1].name,
                               st.grades[i + 1].grade,
                               st.exams[exam_index + 1].type,
                               st.exams[exam_index + 1].info>> >> >>)}

\* list_all_students with its loop ended one student early.
list_all_students_but_last(st) ==
    {Reply(st, [i \in 1..(student_count(st) - 1) |->
                   <<"ID: %d, Name: %s, Faculty: %s\n",
                     <<st.students[i].id, st.students[i].name,
                       st.students[i].faculty>> >>])}

list_all_students(st) ==
    {Reply(st, [i \in 1..student_count(st) |->
                   <<"ID: %d, Name: %s, Faculty: %s\n",
                     <<st.students[i].id, st.students[i].name,
                       st.students[i].faculty>> >>])}

(***************************************************************************)
(* main: one iteration of the loop over the lines of input.txt.  cmd is    *)
(* the content of the verb buffer after sscanf(command, "%s", cmd).        *)
(***************************************************************************)
FormatError(st, fmt) == {Reply(st, << <<fmt, <<>> >> >>)}

main_step(st, cmd, command) ==
    IF streq(cmd, ADD_STUDENT)
    THEN LET r == sscanf(command, <<"d", "s", "s">>)
         IN  IF r.n = 3 THEN add_student(st, r.vals[1], r.vals[2], r.vals[3])
             ELSE FormatError(st, "Invalid ADD_STUDENT command format\n")
    ELSE IF streq(cmd, ADD_EXAM)
    THEN LET r == sscanf(command, <<"d", "s", "s">>)
         IN  IF r.n = 3 THEN add_exam(st, r.vals[1], r.vals[2], r.vals[3])
             ELSE FormatError(st, "Invalid ADD_EXAM command format\n")
    ELSE IF streq(cmd, ADD_GRADE)
    THEN LET r == sscanf(command, <<"d", "d", "d">>)
         IN  IF r.n = 3 THEN add_grade(st, r.vals[1], r.vals[2], r.vals[3])
             ELSE FormatError(st, "Invalid ADD_GRADE command format\n")
    ELSE IF streq(cmd, UPDATE_EXAM)
    THEN LET r == sscanf(command, <<"d", "s", "s">>)
         IN  IF r.n = 3 THEN update_exam(st, r.vals[1], r.vals[2], r.vals[3])
             ELSE FormatError(st, "Invalid UPDATE_EXAM command format\n")
    ELSE IF streq(cmd, UPDATE_GRADE)
    THEN LET r == sscanf(command, <<"d", "d", "d">>)
         IN  IF r.n = 3 THEN update_grade(st, r.vals[1], r.vals[2], r.vals[3])
             ELSE FormatError(st, "Invalid UPDATE_GRADE command format\n")
    ELSE IF streq(cmd, DELETE_STUDENT)
    THEN LET r == sscanf(command, <<"d">>)
         IN  IF r.n = 1 THEN delete_student(st, r.vals[1])
             ELSE FormatError(st, "Invalid DELETE_STUDENT command format\n")
    ELSE IF streq(cmd, SEARCH_STUDENT)
    THEN LET r == sscanf(command, <<"d">>)
         IN  IF r.n = 1 THEN search_student(st, r.vals[1])
             ELSE FormatError(st, "Invalid SEARCH_STUDENT command format\n")
    ELSE IF streq(cmd, SEARCH_GRADE)
    THEN LET r == sscanf(command, <<"d", "d">>)
         IN  IF r.n = 2 THEN search_grade(st, r.vals[1], r.vals[2])
             ELSE FormatError(st, "Invalid SEARCH_GRADE command format\n")
    ELSE IF streq(cmd, LIST_ALL_STUDENTS)
    THEN list_all_students(st)
    ELSE IF streq(cmd, END)
    THEN {[Reply(st, <<>>) EXCEPT !.brk = TRUE]}
    ELSE {Reply(st, << <<"Unknown command: %s\n", <<cmd>> >> >>)}

(***************************************************************************)
(* The lines of input.txt the model draws from.  Every token is shorter    *)
(* than the buffer sscanf copies it to (cmd[30], name[100], faculty[100],  *)
(* type[20], info[100]) and every number fits an int.                      *)
(***************************************************************************)
Verbs ==
    {ADD_STUDENT, ADD_EXAM, ADD_GRADE, UPDATE_EXAM, UPDATE_GRADE,
     DELETE_STUDENT, SEARCH_STUDENT, SEARCH_GRADE, LIST_ALL_STUDENTS, END}

StudentIdTokens == {<<"1">>, <<"2">>}
ExamIdTokens == {<<"1", "0">>, <<"2", "0">>}
GradeTokens == {<<"0">>, <<"1", "0", "0">>, <<"1", "0", "1">>, <<"-", "1">>}
NameTokens == {<<"J", "o">>, <<"A", "l">>, <<"J", "0">>}
FacultyTokens == {ComputerScience, DataScience, <<"M", "a", "t", "h">>}
TypeTokens == {WRITTEN, DIGITAL, <<"O", "R", "A", "L">>}
InfoTokens == {<<"M", "i", "d">>, <<"F", "i", "n">>}

WellFormedLines ==
    {<<ADD_STUDENT, i, n, f>> :
        i \in StudentIdTokens, n \in NameTokens, f \in FacultyTokens}
    \cup {<<ADD_EXAM, i, t, x>> :
        i \in ExamIdTokens, t \in {WRITTEN, <<"O", "R", "A", "L">>}, x \in InfoTokens}
    \cup {<<ADD_GRADE, e, s, g>> :
        e \in ExamIdTokens, s \in StudentIdTokens, g \in GradeTokens}
    \cup {<<UPDATE_EXAM, i, t, x>> :
        i \in ExamIdTokens, t \in TypeTokens, x \in InfoTokens}
    \cup {<<UPDATE_GRADE, e, s, g>> :
        e \in ExamIdTokens, s \in StudentIdTokens, g \in GradeTokens}
    \cup {<<DELETE_STUDENT, i>> : i \in StudentIdTokens}
    \cup {<<SEARCH_STUDENT, i>> : i \in StudentIdTokens}
    \cup {<<SEARCH_GRADE, e, s>> : e \in ExamIdTokens, s \in StudentIdTokens}
    \cup {<<LIST_ALL_STUDENTS>>, <<END>>}

\* Lines with too few tokens, a token that is no number where one is
\* wanted, a number followed by other characters, or tokens to spare.
MalformedLines ==
    {<<v>> : v \in Verbs \ {LIST_ALL_STUDENTS, END}}
    \cup {<<ADD_STUDENT, <<"x">>, <<"J", "o">>, ComputerScience>>,
          <<ADD_STUDENT, <<"1">>, <<"J", "o">>>>,
          <<ADD_EXAM, <<"1", "0">>, WRITTEN>>,
          <<ADD_GRADE, <<"1", "0">>, <<"1">>>>,
          <<ADD_GRADE, <<"1", "0">>, <<"1">>, <<"1", "0", "0", "x">>>>,
          <<UPDATE_EXAM, <<"1", "0">>, DIGITAL>>,
          <<UPDATE_GRADE, <<"1", "0">>, <<"o", "n", "e">>, <<"0">>>>,
          <<DELETE_STUDENT, <<"1", "x">>>>,
          <<SEARCH_STUDENT, <<"-">>>>,
          <<SEARCH_GRADE, <<"1", "0">>>>,
          <<LIST_ALL_STUDENTS, <<"1">>>>,
          <<END, <<"n", "o", "w">>>>}

UnknownLines == {<<<<"F", "O", "O">>>>, <<<<"e", "n", "d">>, <<"1">>>>}

InputLines == WellFormedLines \cup MalformedLines \cup UnknownLines

\* What cmd may hold when sscanf("%s") found no token to store: the bytes
\* left in the buffer, which may be the verb of an earlier line, any other
\* verb, or no verb at all.
Indeterminate(stale) == {stale} \cup Verbs \cup {<<"?">>}

(***************************************************************************)
(* State.                                                                  *)
(***************************************************************************)
VARIABLES
    students,   \* students[0 .. student_count-1]
    exams,      \* exams[0 .. exam_count-1]
    grades,     \* grades[0 .. grade_count-1]
    output,     \* the lines the latest iteration appended to output.txt
    command,    \* the line buffer: the tokens of the line read last
    cmd,        \* the verb buffer
    unread,     \* the number of lines of input.txt not yet read
    pc          \* "loop", "closing" (after the loop), "exited", "crashed"

vars == <<students, exams, grades, output, command, cmd, unread, pc>>

store == Store(students, exams, grades)

\* The reply to the last line of a prefix of input.txt, none of whose
\* lines writes past an array: the store the prefix leaves and the lines
\* its last iteration wrote.  last is the reply to the line before.
RECURSIVE RunLines(_, _)
RunLines(last, lines) ==
    IF lines = <<>> THEN last
    ELSE RunLines(CHOOSE r \in main_step(Store(last.students, last.exams, last.grades),
                                         Head(Head(lines)), Head(lines)) : TRUE,
                  Tail(lines))

EmptyStore == Store(<<>>, <<>>, <<>>)

Prefixes ==
    { <<>>,
      << <<ADD_STUDENT, <<"1">>, <<"J", "o">>, ComputerScience>>,
         <<ADD_STUDENT, <<"2">>, <<"A", "l">>, DataScience>>,
         <<ADD_EXAM, <<"1", "0">>, WRITTEN, <<"M", "i", "d">>>>,
         <<ADD_EXAM, <<"2", "0">>, <<"O", "R", "A", "L">>, <<"F", "i", "n">>>>,
         <<ADD_GRADE, <<"1", "0">>, <<"1">>, <<"0">>>>,
         <<ADD_GRADE, <<"1", "0">>, <<"1">>, <<"1", "0", "0">>>>,
         <<ADD_GRADE, <<"1", "0">>, <<"2">>, <<"0">>>>,
         <<ADD_GRADE, <<"2", "0">>, <<"1">>, <<"1", "0", "0">>>> >>,
      << <<ADD_STUDENT, <<"2">>, <<"A", "l">>, DataScience>>,
         <<ADD_STUDENT, <<"1">>, <<"J", "o">>, ComputerScience>>,
         <<ADD_EXAM, <<"1", "0">>, WRITTEN, <<"M", "i", "d">>>>,
         <<ADD_GRADE, <<"1", "0">>, <<"2">>, <<"1", "0", "0">>>>,
         <<ADD_GRADE, <<"1", "0">>, <<"1">>, <<"0">>>>,
         <<ADD_GRADE, <<"1", "0">>, <<"1">>, <<"0">>>> >> }

\* The store left by MAX_STUDENTS ADD_STUDENT lines with the ids 101,
\* 102, ...: the students array is full.
FullStudents ==
    Store([i \in 1..MAX_STUDENTS |->
              [id |-> 100 + i, name |-> <<"A", "l">>, faculty |-> DataScience]],
          <<>>, <<>>)

\* The line read after them.
FullPrefix == << <<ADD_EXAM, <<"1", "0">>, WRITTEN, <<"M", "i", "d">>>> >>

\* The state of main's loop after the lines p, run from the store st, with
\* up to MaxLines lines of input.txt left to read.
InitWith(st, p) ==
    LET last == RunLines(Reply(st, <<>>), p)
    IN  /\ students = last.students
        /\ exams = last.exams
        /\ grades = last.grades
        /\ output = last.out
        /\ command = IF p = <<>> THEN <<>> ELSE p[Len(p)]
        /\ cmd = IF p = <<>> THEN <<>> ELSE Head(p[Len(p)])
        /\ unread \in 0..MaxLines
        /\ pc = "loop"

Init == \E p \in Prefixes : InitWith(EmptyStore, p)

InitFull == InitWith(FullStudents, FullPrefix)

(***************************************************************************)
(* Actions.                                                                *)
(***************************************************************************)
\* The loop's iteration without the break of END.
Iterate_no_break(l, c) ==
    /\ pc = "loop"
    /\ unread > 0
    /\ \E r \in main_step(store, c, l) :
          /\ students' = r.students
          /\ exams' = r.exams
          /\ grades' = r.grades
          /\ output' = r.out
          /\ pc' = IF r.crash THEN "crashed" ELSE "loop"
    /\ command' = l
    /\ cmd' = c
    /\ unread' = unread - 1

\* fgets reads the line l, sscanf leaves c in cmd, and main dispatches.
Iterate(l, c) ==
    /\ pc = "loop"
    /\ unread > 0
    /\ \E r \in main_step(store, c, l) :
          /\ students' = r.students
          /\ exams' = r.exams
          /\ grades' = r.grades
          /\ output' = r.out
          /\ pc' = IF r.crash THEN "crashed"
                   ELSE IF r.brk THEN "closing" ELSE "loop"
    /\ command' = l
    /\ cmd' = c
    /\ unread' = unread - 1

\* The lines of input.txt that start with this verb.
LinesOf(verb) == {l \in InputLines : Head(l) = verb}

AddStudent ==
    /\ pc = "loop"
    /\ \E l \in LinesOf(ADD_STUDENT) : Iterate(l, Head(l))

AddExam ==
    /\ pc = "loop"
    /\ \E l \in LinesOf(ADD_EXAM) : Iterate(l, Head(l))

AddGrade ==
    /\ pc = "loop"
    /\ \E l \in LinesOf(ADD_GRADE) : Iterate(l, Head(l))

UpdateExam ==
    /\ pc = "loop"
    /\ \E l \in LinesOf(UPDATE_EXAM) : Iterate(l, Head(l))

UpdateGrade ==
    /\ pc = "loop"
    /\ \E l \in LinesOf(UPDATE_GRADE) : Iterate(l, Head(l))

DeleteStudent ==
    /\ pc = "loop"
    /\ \E l \in LinesOf(DELETE_STUDENT) : Iterate(l, Head(l))

SearchStudent ==
    /\ pc = "loop"
    /\ \E l \in LinesOf(SEARCH_STUDENT) : Iterate(l, Head(l))

SearchGrade ==
    /\ pc = "loop"
    /\ \E l \in LinesOf(SEARCH_GRADE) : Iterate(l, Head(l))

ListAllStudents ==
    /\ pc = "loop"
    /\ \E l \in LinesOf(LIST_ALL_STUDENTS) : Iterate(l, Head(l))

End ==
    /\ pc = "loop"
    /\ \E l \in LinesOf(END) : Iterate(l, Head(l))

UnknownCommand ==
    /\ pc = "loop"
    /\ \E l \in UnknownLines : Iterate(l, Head(l))

\* A line without any token: cmd is not written before it is read.
BlankLine ==
    /\ pc = "loop"
    /\ \E c \in Indeterminate(cmd) : Iterate(<<>>, c)

\* fgets returns NULL: the loop ends.
EndOfFile ==
    /\ pc = "loop"
    /\ unread = 0
    /\ pc' = "closing"
    /\ output' = <<>>
    /\ UNCHANGED <<students, exams, grades, command, cmd, unread>>

\* fclose(input); fclose(output); return 0;
Close ==
    /\ pc = "closing"
    /\ pc' = "exited"
    /\ UNCHANGED <<students, exams, grades, output, command, cmd, unread>>

Next ==
    \/ AddStudent
    \/ AddExam
    \/ AddGrade
    \/ UpdateExam
    \/ UpdateGrade
    \/ DeleteStudent
    \/ SearchStudent
    \/ SearchGrade
    \/ ListAllStudents
    \/ End
    \/ UnknownCommand
    \/ BlankLine
    \/ EndOfFile
    \/ Close

Spec == Init /\ [][Next]_vars

\* Runs that start with the students array full.
SpecFull == InitFull /\ [][Next]_vars

(***************************************************************************)
(* Properties.                                                             *)
(***************************************************************************)
\* The step is an iteration of main's loop, on the line command'.
Processed == pc = "loop" /\ unread' = unread - 1

\* The integers the lines of InputLines carry, and their neighbours.
ArgValues == {-1, 0, 1, 2, 3, 10, 20, 30, 100, 101}

\* A written line.
Line(fmt, args) == <<fmt, args>>

\* The arguments sscanf converts from the line of the step.
IntArg == sscanf(command', <<"d">>)
PairArgs == sscanf(command', <<"d", "d">>)
GradeArgs == sscanf(command', <<"d", "d", "d">>)
TextArgs == sscanf(command', <<"d", "s", "s">>)

\* The step calls add_student, with the arguments TextArgs.vals.
CallsAddStudent == Processed /\ cmd' = ADD_STUDENT /\ TextArgs.n = 3

\* The step calls add_grade or update_grade, with the arguments
\* GradeArgs.vals.
CallsAddGrade == Processed /\ cmd' = ADD_GRADE /\ GradeArgs.n = 3
CallsUpdateGrade == Processed /\ cmd' = UPDATE_GRADE /\ GradeArgs.n = 3

\* The step calls delete_student(IntArg.vals[1]) on a stored id.
DeletesStored ==
    /\ Processed
    /\ cmd' = DELETE_STUDENT
    /\ IntArg.n = 1
    /\ find_student(store, IntArg.vals[1]) # -1

UniqueStudentIds ==
    \A i, j \in 1..Len(students) : i # j => students[i].id # students[j].id

UniqueExamIds ==
    \A i, j \in 1..Len(exams) : i # j => exams[i].id # exams[j].id

\* C1: in every reachable state no two stored students have the same id
\* and no two stored exams have the same id.
C1_UniqueIds == UniqueStudentIds /\ UniqueExamIds

\* C1's case: two students and two exams are stored and an ADD_STUDENT with
\* a stored id has just been turned down.
C1_Witness ==
    /\ Len(students) = 2
    /\ Len(exams) = 2
    /\ cmd = ADD_STUDENT
    /\ output = <<Line("Student: %d already exists\n", <<students[1].id>>)>>

\* C2: in every reachable state every stored grade record has a grade
\* value in 0..100.
C2_GradesInRange ==
    \A i \in 1..Len(grades) : grades[i].grade >= 0 /\ grades[i].grade <= 100

\* C2's case: the values 0 and 100 are stored and an UPDATE_GRADE with the
\* value 101 for a stored pair has just been processed.
C2_Witness ==
    /\ \E i \in 1..Len(grades) : grades[i].grade = 0
    /\ \E i \in 1..Len(grades) : grades[i].grade = 100
    /\ command = <<UPDATE_GRADE, <<"1", "0">>, <<"1">>, <<"1", "0", "1">>>>
    /\ cmd = UPDATE_GRADE

\* seq without its element at position k.
Without(seq, k) == SubSeq(seq, 1, k - 1) \o SubSeq(seq, k + 1, Len(seq))

\* C3: delete_student(id) on a stored id leaves grades equal to the
\* previous grades with exactly the records of that student removed and
\* the others in their previous order, leaves students equal to the
\* previous students with exactly that student removed and the others in
\* their previous order, and leaves exams unchanged.
C3_DeleteExact ==
    [][DeletesStored =>
          LET id == IntArg.vals[1]
          IN  /\ grades' = SelectSeq(grades, LAMBDA g : g.student_id # id)
              /\ students' = Without(students, find_student(store, id) + 1)
              /\ \A i \in 1..Len(students') : students'[i].id # id
              /\ exams' = exams]_vars

\* C3's case: student 1, who held two adjacent grade records and the last
\* one, has just been deleted; the one record of student 2 is left.
C3_Witness ==
    /\ cmd = DELETE_STUDENT
    /\ output = <<Line("Student: %d deleted\n", <<1>>)>>
    /\ Len(students) = 1
    /\ Len(exams) = 2
    /\ grades = <<[exam_id |-> 10, student_id |-> 2, grade |-> 0]>>

\* The lines search_student and search_grade would write in store st.
SearchStudentOut(st, id) == (CHOOSE r \in search_student(st, id) : TRUE).out

SearchGradeOut(st, exam_id, id) ==
    (CHOOSE r \in search_grade(st, exam_id, id) : TRUE).out

\* C4: after a successful delete_student(id), search_student(id) yields
\* "Student not found" and no search_grade(exam_id, id) yields a grade;
\* and when a student with that id is added (again), no grade stored
\* before then is found for the id.
C4_DeletedUnfindable ==
    [][/\ DeletesStored =>
             LET id == IntArg.vals[1]
             IN  /\ SearchStudentOut(store', id) = <<Line("Student not found\n", <<>>)>>
                 /\ \A e \in ArgValues :
                       SearchGradeOut(store', e, id) = <<Line("Student not found\n", <<>>)>>
       /\ (CallsAddStudent /\ students' # students) =>
             \A e \in ArgValues :
                SearchGradeOut(store', e, TextArgs.vals[1]) =
                   <<Line("Grade not found\n", <<>>)>>]_vars

\* C4's case: student 1, deleted together with three grade records, has
\* just been added again.
C4_Witness ==
    /\ cmd = ADD_STUDENT
    /\ output = <<Line("Student: %d added\n", <<1>>)>>
    /\ Len(students) = 2
    /\ students[1].id = 2
    /\ Len(exams) = 2
    /\ grades = <<[exam_id |-> 10, student_id |-> 2, grade |-> 0]>>

\* C5: add_student with an id not stored, an alphabetic name and an
\* allowed faculty succeeds with "Student: <id> added" whatever the number
\* of students stored, and search_student(id) then returns that id, name
\* and faculty, until a delete_student(id).
C5_AddThenSearch ==
    [][/\ ( /\ CallsAddStudent
            /\ find_student(store, TextArgs.vals[1]) = -1
            /\ AlphabeticName(TextArgs.vals[2])
            /\ ValidFaculty(TextArgs.vals[3]) )
          => /\ output' = <<Line("Student: %d added\n", <<TextArgs.vals[1]>>)>>
             /\ SearchStudentOut(store', TextArgs.vals[1]) =
                   <<Line("ID: %d, Name: %s, Faculty: %s\n", TextArgs.vals)>>
       /\ \A i \in 1..Len(students) :
             ~(DeletesStored /\ IntArg.vals[1] = students[i].id)
             => SearchStudentOut(store', students[i].id) =
                   SearchStudentOut(store, students[i].id)]_vars

\* C6: add_student with a stored id yields "Student: <id> already exists",
\* whatever its name and faculty arguments, and leaves students, exams and
\* grades unchanged (so a repetition meets the same store and the same
\* answer).
C6_DuplicateRejected ==
    [][(CallsAddStudent /\ find_student(store, TextArgs.vals[1]) # -1)
       => /\ output' = <<Line("Student: %d already exists\n", <<TextArgs.vals[1]>>)>>
          /\ UNCHANGED <<students, exams, grades>>]_vars

\* C6's case: an ADD_STUDENT with the stored id 1, a name that is not
\* alphabetic and a faculty that is not allowed has just been turned down.
C6_Witness ==
    /\ command = <<ADD_STUDENT, <<"1">>, <<"J", "0">>, <<"M", "a", "t", "h">>>>
    /\ cmd = ADD_STUDENT
    /\ find_student(store, 1) # -1
    /\ output = <<Line("Student: %d already exists\n", <<1>>)>>

\* C7: add_grade and update_grade with a value below 0 or above 100 yield
\* "Invalid grade" and leave students, exams and grades unchanged, whether
\* or not the student, the exam or a grade of the pair is stored.
C7_InvalidGradeRejected ==
    [][( /\ CallsAddGrade \/ CallsUpdateGrade
         /\ GradeArgs.vals[3] < 0 \/ GradeArgs.vals[3] > 100 )
       => /\ output' = <<Line("Invalid grade\n", <<>>)>>
          /\ UNCHANGED <<students, exams, grades>>]_vars

\* C7's case: an ADD_GRADE with the value -1 has just been turned down in
\* a store that holds neither the student nor the exam.
C7_Witness ==
    /\ command = <<ADD_GRADE, <<"1", "0">>, <<"1">>, <<"-", "1">>>>
    /\ cmd = ADD_GRADE
    /\ students = <<>>
    /\ exams = <<>>
    /\ output = <<Line("Invalid grade\n", <<>>)>>

\* C8: a successful update_grade(exam_id, student_id, v) writes v to the
\* first record in storage order that matches the pair and leaves every
\* other record, the number of records, students and exams unchanged; the
\* record it wrote is still the first match, so a second identical call
\* writes it again.
C8_UpdateFirstMatch ==
    [][( /\ CallsUpdateGrade
         /\ output' = <<Line("Grade %d updated for the student: %d\n",
                             <<GradeArgs.vals[3], GradeArgs.vals[2]>>)>> )
       => LET e == GradeArgs.vals[1]
              s == GradeArgs.vals[2]
              v == GradeArgs.vals[3]
          IN  /\ \E k \in 1..Len(grades) :
                    /\ grades[k].exam_id = e /\ grades[k].student_id = s
                    /\ \A j \in 1..(k - 1) :
                          ~(grades[j].exam_id = e /\ grades[j].student_id = s)
                    /\ grades' = [grades EXCEPT ![k].grade = v]
              /\ UNCHANGED <<students, exams>>]_vars

\* C8's case: the pair (10, 1) has two records, after a record of another
\* pair; an UPDATE_GRADE has just written 100 to the first of the two and
\* the second still holds 0.
C8_Witness ==
    /\ cmd = UPDATE_GRADE
    /\ output = <<Line("Grade %d updated for the student: %d\n", <<100, 1>>)>>
    /\ grades = <<[exam_id |-> 10, student_id |-> 2, grade |-> 100],
                  [exam_id |-> 10, student_id |-> 1, grade |-> 100],
                  [exam_id |-> 10, student_id |-> 1, grade |-> 0]>>

\* C9 as stated: every line processed writes exactly one line to the
\* output.
C9_OneLinePerCommand == [][Processed => Len(output') = 1]_vars

\* C9 as amended: every line processed writes exactly one line, except
\* that LIST_ALL_STUDENTS writes one line for each stored student and END
\* writes none.
C9_LinesPerCommand ==
    [][Processed =>
          IF cmd' = LIST_ALL_STUDENTS
          THEN Len(output') = Len(students) /\ students' = students
          ELSE IF cmd' = END THEN Len(output') = 0
          ELSE Len(output') = 1]_vars

\* C9's case: LIST_ALL_STUDENTS has just written two lines.
C9_Witness ==
    /\ command = <<LIST_ALL_STUDENTS>>
    /\ cmd = LIST_ALL_STUDENTS
    /\ Len(students) = 2
    /\ Len(output) = 2

\* After the loop nothing is written and nothing changes.
HaltedForGood ==
    pc # "loop" =>
       /\ pc' # "loop"
       /\ UNCHANGED <<students, exams, grades, output, command, cmd, unread>>

\* END leaves the loop at once, having written and changed nothing.
EndHalts ==
    (Processed /\ cmd' = END) =>
       /\ pc' = "closing"
       /\ output' = <<>>
       /\ UNCHANGED <<students, exams, grades>>

\* C10 as stated: once END is read no later line produces output or
\* changes the store, and the loop is left by END only.
C10_EndOnlyExit ==
    [][/\ HaltedForGood
       /\ EndHalts
       /\ (pc = "loop" /\ pc' # "loop") => (Processed /\ cmd' = END)]_vars

\* C10 as amended: once END is read no later line produces output or
\* changes the store, and the loop is left by END or at the end of the
\* input only.
C10_EndOrEofExit ==
    [][/\ HaltedForGood
       /\ EndHalts
       /\ (pc = "loop" /\ pc' # "loop") =>
             \/ Processed /\ cmd' = END
             \/ unread = 0 /\ UNCHANGED <<students, exams, grades, unread>>]_vars

\* C10's case: the program has exited after END with a line of the input
\* left unread.
C10_Witness ==
    /\ pc = "exited"
    /\ command = <<END>>
    /\ cmd = END
    /\ unread > 0

\* The conversions main asks of sscanf after each verb.
ArgFormat(verb) ==
    CASE verb \in {ADD_STUDENT, ADD_EXAM, UPDATE_EXAM} -> <<"d", "s", "s">>
      [] verb \in {ADD_GRADE, UPDATE_GRADE} -> <<"d", "d", "d">>
      [] verb \in {DELETE_STUDENT, SEARCH_STUDENT} -> <<"d">>
      [] verb = SEARCH_GRADE -> <<"d", "d">>
      [] OTHER -> <<>>

FormatMessage(verb) ==
    CASE verb = ADD_STUDENT -> "Invalid ADD_STUDENT command format\n"
      [] verb = ADD_EXAM -> "Invalid ADD_EXAM command format\n"
      [] verb = ADD_GRADE -> "Invalid ADD_GRADE command format\n"
      [] verb = UPDATE_EXAM -> "Invalid UPDATE_EXAM command format\n"
      [] verb = UPDATE_GRADE -> "Invalid UPDATE_GRADE command format\n"
      [] verb = DELETE_STUDENT -> "Invalid DELETE_STUDENT command format\n"
      [] verb = SEARCH_STUDENT -> "Invalid SEARCH_STUDENT command format\n"
      [] verb = SEARCH_GRADE -> "Invalid SEARCH_GRADE command format\n"

\* The token is an integer of the grammar: an optional sign and digits,
\* and nothing else.
IntegerToken(tok) == ScanInt(tok).ok /\ ScanInt(tok).rest = <<>>

\* The line has fewer argument tokens than its verb requires, or a token
\* that is no integer where the grammar wants one.
FewerOrMalformed(line) ==
    LET fmt == ArgFormat(Head(line))
    IN  \/ Len(line) - 1 < Len(fmt)
        \/ \E k \in 1..Len(fmt) :
              /\ k + 1 <= Len(line)
              /\ fmt[k] = "d"
              /\ ~IntegerToken(line[k + 1])

\* C11: a line with a recognised verb and fewer or malformed argument
\* tokens than required writes "Invalid <COMMAND> command format" alone,
\* a line with an unrecognised verb writes "Unknown command: <verb>"
\* alone; neither calls a handler nor changes students, exams or grades,
\* and the loop goes on to the next line.
C11_MalformedRejected ==
    [][(Processed /\ command' # <<>> /\ cmd' = Head(command')) =>
          /\ (cmd' \in Verbs /\ FewerOrMalformed(command')) =>
                /\ output' = <<Line(FormatMessage(cmd'), <<>>)>>
                /\ UNCHANGED <<students, exams, grades>>
                /\ pc' = "loop"
          /\ cmd' \notin Verbs =>
                /\ output' = <<Line("Unknown command: %s\n", <<cmd'>>)>>
                /\ UNCHANGED <<students, exams, grades>>
                /\ pc' = "loop"]_vars

\* C11 for the lines main does turn down: those whose next token has no
\* number at its start where sscanf looks for one, or that end before
\* their last argument.
C11_ScanFailureRejected ==
    [][(Processed /\ command' # <<>> /\ cmd' = Head(command')) =>
          /\ ( /\ cmd' \in Verbs \ {LIST_ALL_STUDENTS, END}
               /\ sscanf(command', ArgFormat(cmd')).n # Len(ArgFormat(cmd')) ) =>
                /\ output' = <<Line(FormatMessage(cmd'), <<>>)>>
                /\ UNCHANGED <<students, exams, grades>>
                /\ pc' = "loop"
          /\ cmd' \notin Verbs =>
                /\ output' = <<Line("Unknown command: %s\n", <<cmd'>>)>>
                /\ UNCHANGED <<students, exams, grades>>
                /\ pc' = "loop"]_vars

\* The step calls search_grade, with the arguments PairArgs.vals.
CallsSearchGrade == Processed /\ cmd' = SEARCH_GRADE /\ PairArgs.n = 2

\* The positions in grades of the records of the pair.
Matches(exam_id, student_id) ==
    {k \in 1..Len(grades) : /\ grades[k].exam_id = exam_id
                            /\ grades[k].student_id = student_id}

Least(S) == CHOOSE k \in S : \A j \in S : k <= j

\* C12: search_grade(exam_id, student_id) yields "Student not found" when
\* the student is not stored; otherwise, when a grade of the pair is
\* stored, the value of the first such record in storage order with the
\* student's name and the exam's type and info as they are stored now;
\* otherwise, also for an exam_id that is not stored, "Grade not found".
C12_SearchGrade ==
    [][CallsSearchGrade =>
          LET exam_id == PairArgs.vals[1]
              student_id == PairArgs.vals[2]
              M == Matches(exam_id, student_id)
          IN  /\ (\A i \in 1..Len(students) : students[i].id # student_id) =>
                    output' = <<Line("Student not found\n", <<>>)>>
              /\ ( /\ \E i \in 1..Len(students) : students[i].id = student_id
                   /\ M = {} ) =>
                    output' = <<Line("Grade not found\n", <<>>)>>
              /\ ( /\ \E i \in 1..Len(students) : students[i].id = student_id
                   /\ M # {} ) =>
                    \E i \in 1..Len(students), j \in 1..Len(exams) :
                       /\ students[i].id = student_id
                       /\ exams[j].id = exam_id
                       /\ output' = <<Line("Exam: %d, Student: %d, Name: %s, Grade: %d, Type: %s, Info: %s\n",
                                           <<exam_id, student_id, students[i].name,
                                             grades[Least(M)].grade,
                                             exams[j].type, exams[j].info>>)>>]_vars

\* C12's case: exam 10, stored as WRITTEN Mid, has been updated to
\* DIGITAL Fin, and a search for the pair (10, 1), which has two records,
\* shows the first record's grade with the new type and info.
C12_Witness ==
    /\ cmd = SEARCH_GRADE
    /\ Cardinality(Matches(10, 1)) = 2
    /\ output = <<Line("Exam: %d, Student: %d, Name: %s, Grade: %d, Type: %s, Info: %s\n",
                       <<10, 1, <<"J", "o">>, grades[Least(Matches(10, 1))].grade,
                         DIGITAL, <<"F", "i", "n">> >>)>>

StudentStored(id) == \E i \in 1..Len(students) : students[i].id = id

ExamStored(id) == \E j \in 1..Len(exams) : exams[j].id = id

\* C13: add_grade(exam_id, student_id, value) succeeds exactly when value
\* is in 0..100 and the student and the exam are stored; a success appends
\* exactly one record at the end of grades, also when the pair has a
\* record already; with the student and the exam both missing the line is
\* "Student not found"; a failure leaves grades unchanged.
C13_AddGrade ==
    [][CallsAddGrade =>
          LET exam_id == GradeArgs.vals[1]
              student_id == GradeArgs.vals[2]
              value == GradeArgs.vals[3]
              added == <<Line("Grade %d added for the student: %d\n",
                              <<value, student_id>>)>>
          IN  IF value \in 0..100 /\ StudentStored(student_id) /\ ExamStored(exam_id)
              THEN /\ output' = added
                   /\ grades' = Append(grades, [exam_id |-> exam_id,
                                                student_id |-> student_id,
                                                grade |-> value])
              ELSE /\ output' # added
                   /\ grades' = grades
                   /\ ( /\ value \in 0..100
                        /\ ~StudentStored(student_id)
                        /\ ~ExamStored(exam_id) ) =>
                         output' = <<Line("Student not found\n", <<>>)>>]_vars

\* C13's case: a grade has just been added for a pair that had two records
\* already, and is the last of its three records.
C13_Witness ==
    /\ cmd = ADD_GRADE
    /\ output = <<Line("Grade %d added for the student: %d\n", <<100, 1>>)>>
    /\ Cardinality(Matches(10, 1)) = 3
    /\ Len(grades) \in Matches(10, 1)

\* C14: update_grade(exam_id, student_id, v) with v in 0..100 yields
\* "Student not found" exactly when no stored grade is of the pair, also
\* when the student and the exam are both stored, and then leaves
\* students, exams and grades unchanged.
C14_UpdateGradeMiss ==
    [][(CallsUpdateGrade /\ GradeArgs.vals[3] \in 0..100) =>
          LET miss == Matches(GradeArgs.vals[1], GradeArgs.vals[2]) = {}
          IN  /\ (output' = <<Line("Student not found\n", <<>>)>>) <=> miss
              /\ miss => UNCHANGED <<students, exams, grades>>]_vars

\* C14's case: student 2 and exam 20 are stored, no grade of the pair
\* (20, 2) is, and an UPDATE_GRADE for the pair has just been answered
\* with "Student not found".
C14_Witness ==
    /\ cmd = UPDATE_GRADE
    /\ Len(command) = 4
    /\ command[2] = <<"2", "0">>
    /\ command[3] = <<"2">>
    /\ StudentStored(2)
    /\ ExamStored(20)
    /\ grades # <<>>
    /\ Matches(20, 2) = {}
    /\ output = <<Line("Student not found\n", <<>>)>>

\* The step calls update_exam, with the arguments TextArgs.vals.
CallsUpdateExam == Processed /\ cmd' = UPDATE_EXAM /\ TextArgs.n = 3

\* C15: update_exam(id, new_type, new_info) yields "Exam not found" when
\* id is not stored, whatever the type; "Invalid exam type" when the exam
\* is stored and new_type is neither WRITTEN nor DIGITAL; both leave every
\* exam unchanged.  Otherwise the type and info of that exam are
\* overwritten, and its id, its position, every other exam, students and
\* grades stay as they were.
C15_UpdateExam ==
    [][CallsUpdateExam =>
          LET id == TextArgs.vals[1]
              new_type == TextArgs.vals[2]
              new_info == TextArgs.vals[3]
          IN  IF ~ExamStored(id)
              THEN /\ output' = <<Line("Exam not found\n", <<>>)>>
                   /\ UNCHANGED <<students, exams, grades>>
              ELSE IF new_type \notin {WRITTEN, DIGITAL}
              THEN /\ output' = <<Line("Invalid exam type\n", <<>>)>>
                   /\ UNCHANGED <<students, exams, grades>>
              ELSE /\ output' = <<Line("Exam: %d updated\n", <<id>>)>>
                   /\ Len(exams') = Len(exams)
                   /\ \A j \in 1..Len(exams) :
                         exams'[j] = IF exams[j].id = id
                                     THEN [id |-> id, type |-> new_type,
                                           info |-> new_info]
                                     ELSE exams[j]
                   /\ UNCHANGED <<students, grades>>]_vars

\* C15's case: the second of two exams, stored with the type ORAL, has
\* just been updated to DIGITAL, and the first is as it was added.
C15_Witness ==
    /\ cmd = UPDATE_EXAM
    /\ output = <<Line("Exam: %d updated\n", <<20>>)>>
    /\ Len(exams) = 2
    /\ exams[1] = [id |-> 10, type |-> WRITTEN, info |-> <<"M", "i", "d">>]
    /\ exams[2].id = 20
    /\ exams[2].type = DIGITAL
    /\ exams[2].info = <<"M", "i", "d">>

\* What list_all_students writes for the store.
ListOut(st) == (CHOOSE r \in list_all_students(st) : TRUE).out

\* One line for each of the students, in their order.
StudentLines(seq) ==
    [i \in 1..Len(seq) |->
        Line("ID: %d, Name: %s, Faculty: %s\n",
             <<seq[i].id, seq[i].name, seq[i].faculty>>)]

\* The students stored before the step in the order of their successful
\* add_student calls, with the student the step reports as added put last
\* and the student it reports as deleted taken out.
InAddOrder ==
    IF CallsAddStudent
       /\ output' = <<Line("Student: %d added\n", <<TextArgs.vals[1]>>)>>
    THEN Append(students, [id |-> TextArgs.vals[1], name |-> TextArgs.vals[2],
                           faculty |-> TextArgs.vals[3]])
    ELSE IF /\ cmd' = DELETE_STUDENT
            /\ IntArg.n = 1
            /\ output' = <<Line("Student: %d deleted\n", <<IntArg.vals[1]>>)>>
    THEN SelectSeq(students, LAMBDA s : s.id # IntArg.vals[1])
    ELSE students

\* C16: after any sequence of commands list_all_students writes exactly
\* the students stored, each once, in the order of their successful
\* add_student calls.  Step by step: what a listing would show after a
\* line is what it would have shown before, with a student reported as
\* added put last and a student reported as deleted taken out; and a
\* LIST_ALL_STUDENTS line writes just that, no line twice.
C16_ListInAddOrder ==
    [][Processed =>
          /\ ListOut(store') = StudentLines(InAddOrder)
          /\ cmd' = LIST_ALL_STUDENTS =>
                /\ output' = StudentLines(students)
                /\ \A i, j \in 1..Len(output') : i # j => output'[i] # output'[j]]_vars

\* C16's case: of the students 1 and 2 the first was deleted and then
\* added again under another name, and a listing now shows 2 before 1.
C16_Witness ==
    /\ cmd = ADD_STUDENT
    /\ output = <<Line("Student: %d added\n", <<1>>)>>
    /\ ListOut(store) =
          <<Line("ID: %d, Name: %s, Faculty: %s\n", <<2, <<"A", "l">>, DataScience>>),
            Line("ID: %d, Name: %s, Faculty: %s\n", <<1, <<"A", "l">>, ComputerScience>>)>>

Faculties ==
    {SoftwareEngineering, ComputerScience, DataScience, CyberSecurity,
     InformationTechnology, ProgrammingLanguagesAndCompilers}

ValidStudents ==
    \A i \in 1..Len(students) :
       /\ \A k \in 1..Len(students[i].name) : students[i].name[k] \in Alpha
       /\ students[i].faculty \in Faculties

\* C17: in every reachable state every stored student has a name of
\* alphabetic characters only and one of the six faculties; and a step
\* leaves every student it keeps with the id, name and faculty it had, a
\* student record that was not there before being the last one, written
\* by a successful add_student from the arguments of the line.
C17_NamesAndFaculties ==
    /\ ValidStudents
    /\ [][/\ ValidStudents'
          /\ \A i \in 1..Len(students') :
                \/ \E j \in 1..Len(students) : students[j] = students'[i]
                \/ /\ CallsAddStudent
                   /\ output' = <<Line("Student: %d added\n", <<TextArgs.vals[1]>>)>>
                   /\ i = Len(students')
                   /\ students'[i] = [id |-> TextArgs.vals[1],
                                      name |-> TextArgs.vals[2],
                                      faculty |-> TextArgs.vals[3]]]_vars

\* C17's case: with a student stored, an ADD_STUDENT with an id not
\* stored, one of the faculties and a name that has a digit in it has
\* just been turned down.
C17_Witness ==
    /\ cmd = ADD_STUDENT
    /\ Len(command) = 4
    /\ command[3] = <<"J", "0">>
    /\ output = <<Line("Invalid name\n", <<>>)>>
    /\ Len(students) = 1
    /\ ValidStudents

\* C18: in every reachable state every stored grade has the id of a
\* stored student and the id of a stored exam; so search_grade, which
\* looks the exam up only after it found a grade of the pair, never
\* writes "Exam not found".
C18_ReferentialIntegrity ==
    /\ \A k \in 1..Len(grades) :
          /\ StudentStored(grades[k].student_id)
          /\ ExamStored(grades[k].exam_id)
          /\ SearchGradeOut(store, grades[k].exam_id, grades[k].student_id)
                # <<Line("Exam not found\n", <<>>)>>
    /\ cmd = SEARCH_GRADE => output # <<Line("Exam not found\n", <<>>)>>

\* C18's case: one of two students has been deleted, and a SEARCH_GRADE
\* has just found a grade of the other, past the lookup of its exam.
C18_Witness ==
    /\ cmd = SEARCH_GRADE
    /\ Len(students) = 1
    /\ grades # <<>>
    /\ Len(output) = 1
    /\ output[1][1] = "Exam: %d, Student: %d, Name: %s, Grade: %d, Type: %s, Info: %s\n"

\* C19: after any sequence of commands student_count <= MAX_STUDENTS,
\* exam_count <= MAX_EXAMS and grade_count <= MAX_EXAMS * MAX_STUDENTS,
\* and no write of add_student, add_exam or add_grade went past the end
\* of its array.
C19_WithinCapacity ==
    /\ student_count(store) <= MAX_STUDENTS
    /\ exam_count(store) <= MAX_EXAMS
    /\ grade_count(store) <= MAX_GRADES
    /\ pc # "crashed"

\* The step runs the branch of SEARCH_STUDENT, SEARCH_GRADE or
\* LIST_ALL_STUDENTS, whatever follows the verb.
ReadOnlyStep ==
    /\ Processed
    /\ cmd' \in {SEARCH_STUDENT, SEARCH_GRADE, LIST_ALL_STUDENTS}

\* One command of each verb, to be run after a query.
LaterCommands ==
    {l \in WellFormedLines :
        \A k \in 2..Len(l) :
           l[k] \in {<<"1">>, <<"1", "0">>, <<"0">>, <<"J", "o">>,
                     ComputerScience, WRITTEN, <<"M", "i", "d">>}}

\* C20: search_student, search_grade and list_all_students never change
\* students, exams, grades or their counts, whatever their arguments and
\* whether they find anything; and every command has after them the
\* replies it had before them.
C20_QueriesReadOnly ==
    [][ReadOnlyStep =>
          /\ UNCHANGED <<students, exams, grades>>
          /\ student_count(store') = student_count(store)
          /\ exam_count(store') = exam_count(store)
          /\ grade_count(store') = grade_count(store)
          /\ \A l \in LaterCommands :
                main_step(store', Head(l), l) = main_step(store, Head(l), l)]_vars

\* C20's case: with two students and grades stored, a SEARCH_STUDENT has
\* just found the second student.
C20_Witness ==
    /\ cmd = SEARCH_STUDENT
    /\ Len(students) = 2
    /\ grades # <<>>
    /\ output = <<Line("ID: %d, Name: %s, Faculty: %s\n",
                       <<students[2].id, students[2].name, students[2].faculty>>)>>

====
